---- MODULE Spec2Model ----
(***************************************************************************)
(* Model of the SIPE HTTP transport layer (src/src/core/                   *)
(* sipe-http-transport.c): the connection pool keyed by "host:port", the   *)
(* timeout queue with its single named timer, and the input handler that   *)
(* frames HTTP messages out of the connection buffer.                      *)
(*                                                                         *)
(* Every C function is a state transformer: an operator that takes the     *)
(* program state as a record and returns the state after the call, so that *)
(* a handler that calls another handler (the reconnect inside the input    *)
(* handler) is one atomic action of the model.  An intermediate state or   *)
(* value that is used more than once is the argument of a local operator,  *)
(* so the local operators of a function read from the last one upwards.    *)
(***************************************************************************)
EXTENDS Integers, Sequences, FiniteSets, TLC

VARIABLES
    http,           \* sipe_private->http != NULL
    connections,    \* http->connections: host_port -> entry
    entries,        \* every connection object allocated so far
    timeouts,       \* http->timeouts: queue of entries
    next_timeout,   \* http->next_timeout
    timer,          \* the scheduled "<+http-timeout>" action
    socks,          \* backend transport connections handed out by connect
    now,            \* time(NULL)
    calls,          \* calls to the collaborators made by the last handler
    last,           \* the last handler that ran, with its arguments and result
    stream,         \* the bytes the server sends on the first connection
    sent,           \* how many of them the backend has read so far
    dispatched      \* the messages handed to sipe_http_request_response

vars == <<http, connections, entries, timeouts, next_timeout, timer, socks,
          now, calls, last, stream, sent, dispatched>>

-----------------------------------------------------------------------------
(* Bounds of the model *)

MaxTime == 90
TickStep == 30
MaxSocks == 2
MaxBuf == 38
MaxPiece == 2

(* Program constants *)

SIPE_HTTP_DEFAULT_TIMEOUT == 60
NULL == 0

-----------------------------------------------------------------------------
(* Bytes and strings: a string is a sequence of one-character strings *)

CR == "\r"
LF == "\n"
NUL == "\\0"

UpperCase == <<"A","B","C","D","E","F","G","H","I","J","K","L","M",
               "N","O","P","Q","R","S","T","U","V","W","X","Y","Z">>
LowerCase == <<"a","b","c","d","e","f","g","h","i","j","k","l","m",
               "n","o","p","q","r","s","t","u","v","w","x","y","z">>

ToLower ==
    [ c \in { UpperCase[i] : i \in 1..26 } |->
        LowerCase[CHOOSE i \in 1..26 : UpperCase[i] = c] ]

g_ascii_tolower(c) == IF c \in DOMAIN ToLower THEN ToLower[c] ELSE c

(* host names compared as written *)
g_ascii_strdown_verbatim(str) == str

g_ascii_strdown(str) == [i \in 1..Len(str) |-> g_ascii_tolower(str[i])]

DecDigits == <<"0","1","2","3","4","5","6","7","8","9">>

RECURSIVE FormatUInt(_)
FormatUInt(n) ==
    IF n < 10 THEN <<DecDigits[n + 1]>>
    ELSE FormatUInt(n \div 10) \o <<DecDigits[(n % 10) + 1]>>

(* g_strdup_printf("%s:%u", host, port) *)
host_port_format(host, port) == host \o <<":">> \o FormatUInt(port)

-----------------------------------------------------------------------------
(* Inputs *)

(* destinations the request layer asks for: <<host, port>> *)
Dests == { <<<<"a">>, 443>>, <<<<"A">>, 443>>, <<<<"b">>, 443>>, <<<<"a">>, 80>> }

-----------------------------------------------------------------------------
(* The program state as one record, threaded through the C functions *)

(* what the last run of the input handler found: the buffer it was called
   on, the outcome, the buffer it left and the message it assembled *)
NoFrame == [outcome |-> "none", input |-> <<>>, rest |-> <<>>, body |-> <<>>,
            bodylen |-> 0]

State ==
    [ http |-> http, connections |-> connections, entries |-> entries,
      timeouts |-> timeouts, next_timeout |-> next_timeout, timer |-> timer,
      socks |-> socks, calls |-> <<>>, ret |-> NULL, frame |-> NoFrame ]

Call(s, c) == [s EXCEPT !.calls = Append(@, c)]

NoTimer == [pending |-> FALSE, due |-> 0, payload |-> NULL]

(* what is left of a connection object once sipe_http_transport_free and
   sipe_http_request_shutdown have released it *)
FreedEntry ==
    [ host |-> <<>>, port |-> 0, host_port |-> <<>>, connection |-> NULL,
      connected |-> FALSE, timeout |-> 0, freed |-> TRUE ]

-----------------------------------------------------------------------------
(* Collaborators: backend transport, scheduler, GLib containers *)

sipe_backend_transport_connect(s, id) ==
    LET k == Len(s.socks) + 1
        e == s.entries[id]
    IN  Call([s EXCEPT !.socks = Append(@, [ open |-> TRUE, disc |-> 0,
                                              owner |-> id, buffer |-> <<>> ]),
                       !.ret = k],
             <<"connect", "TLS", e.host, e.port, k>>)

sipe_backend_transport_disconnect(s, k) ==
    Call([s EXCEPT !.socks[k].open = FALSE,
                   !.socks[k].disc = @ + 1,
                   !.socks[k].owner = NULL,
                   !.socks[k].buffer = <<>>],
         <<"disconnect", k>>)

sipe_http_request_shutdown(s, id) == Call(s, <<"request_shutdown", id>>)

sipe_http_request_next(s, id) == Call(s, <<"request_next", id>>)

sipe_schedule_seconds(s, payload, current_time, delay) ==
    Call([s EXCEPT !.timer = [ pending |-> TRUE, due |-> current_time + delay,
                               payload |-> payload ]],
         <<"schedule", payload, delay>>)

sipe_schedule_cancel(s) ==
    Call([s EXCEPT !.timer = NoTimer], <<"cancel">>)

sipe_http_connection_new(s, host, port) ==
    LET id == Len(s.entries) + 1
    IN  [s EXCEPT !.entries = Append(@, [ host |-> host, port |-> port,
                                           host_port |-> <<>>,
                                           connection |-> NULL,
                                           connected |-> FALSE,
                                           timeout |-> 0, freed |-> FALSE ]),
                  !.ret = id]

(* the first link is unlinked, whichever element was asked for *)
g_queue_remove_head(queue, data) ==
    IF queue = <<>> THEN <<>> ELSE Tail(queue)

RECURSIVE g_queue_remove(_, _)
g_queue_remove(queue, data) ==
    IF queue = <<>> THEN <<>>
    ELSE IF Head(queue) = data THEN Tail(queue)
    ELSE <<Head(queue)>> \o g_queue_remove(Tail(queue), data)

g_queue_peek_head(queue) == IF queue = <<>> THEN NULL ELSE Head(queue)

(* the later deadline compares as the smaller one *)
timeout_compare_reversed(s, a, b) ==
    s.entries[b].timeout - s.entries[a].timeout

timeout_compare(s, a, b) == s.entries[a].timeout - s.entries[b].timeout

RECURSIVE g_queue_insert_sorted(_, _, _)
g_queue_insert_sorted(s, queue, data) ==
    IF queue # <<>> /\ timeout_compare(s, Head(queue), data) < 0
    THEN <<Head(queue)>> \o g_queue_insert_sorted(s, Tail(queue), data)
    ELSE <<data>> \o queue

g_hash_table_lookup(table, key) ==
    IF key \in DOMAIN table THEN table[key] ELSE NULL

-----------------------------------------------------------------------------
(* sipe-http-transport.c *)

(* the entry is released but stays in the timeout queue *)
sipe_http_transport_free_keeps_queue(s, id) ==
    LET conn == s.entries[id].connection
        s1 == IF conn # NULL THEN sipe_backend_transport_disconnect(s, conn)
              ELSE s
        s2 == [s1 EXCEPT !.entries[id] = FreedEntry]
    IN  sipe_http_request_shutdown(s2, id)

(* the entry is released with its socket left open *)
sipe_http_transport_free_leaks_socket(s, id) ==
    sipe_http_request_shutdown(
        [s EXCEPT !.timeouts = g_queue_remove(@, id),
                  !.entries[id] = FreedEntry],
        id)

sipe_http_transport_free(s, id) ==
    LET conn == s.entries[id].connection
        s1 == IF conn # NULL THEN sipe_backend_transport_disconnect(s, conn)
              ELSE s
        s2 == [s1 EXCEPT !.timeouts = g_queue_remove(@, id),
                         !.entries[id] = FreedEntry]
    IN  sipe_http_request_shutdown(s2, id)

(* g_hash_table_remove with sipe_http_transport_free as value destructor *)
g_hash_table_remove(s, key) ==
    IF key \in DOMAIN s.connections
    THEN LET id == s.connections[key]
             s1 == [s EXCEPT !.connections =
                        [k \in (DOMAIN @) \ {key} |-> @[k]]]
         IN  sipe_http_transport_free(s1, id)
    ELSE s

(* conn_private->host_port is read through the pointer the caller holds.
   When the object was freed that read is a use after free: it yields
   whatever the allocator left there, passed in as stale_key. *)
(* the entry at the head of the timeout queue is dropped, whichever entry
   was asked for *)
sipe_http_transport_drop_head(s, id, stale_key) ==
    IF s.timeouts = <<>> THEN s
    ELSE g_hash_table_remove(s, s.entries[Head(s.timeouts)].host_port)

sipe_http_transport_drop(s, id, stale_key) ==
    LET key == IF s.entries[id].freed THEN stale_key
               ELSE s.entries[id].host_port
    IN  g_hash_table_remove(s, key)

(* the deadline is handed to the scheduler as if it were the delay *)
start_timer_absolute(s, current_time) ==
    LET conn_private == g_queue_peek_head(s.timeouts)
        s1 == [s EXCEPT !.next_timeout = s.entries[conn_private].timeout]
    IN  sipe_schedule_seconds(s1, conn_private, current_time, s1.next_timeout)

(* next_timeout is set but no action is scheduled *)
start_timer_unscheduled(s, current_time) ==
    [s EXCEPT !.next_timeout =
                  s.entries[g_queue_peek_head(s.timeouts)].timeout]

start_timer(s, current_time) ==
    LET conn_private == g_queue_peek_head(s.timeouts)
        s1 == [s EXCEPT !.next_timeout = s.entries[conn_private].timeout]
    IN  sipe_schedule_seconds(s1, conn_private, current_time,
                              s1.next_timeout - current_time)

(* the timer is not started again for the entries that stay in the queue *)
RECURSIVE timeout_loop_no_rearm(_, _, _, _)
timeout_loop_no_rearm(s, conn_private, current_time, stale_key) ==
    LET next(s1, head) ==
            IF head = NULL THEN s1
            ELSE IF s1.entries[head].timeout > current_time
            THEN s1
            ELSE timeout_loop_no_rearm(s1, head, current_time, stale_key)
        dropped(s1) == next(s1, g_queue_peek_head(s1.timeouts))
    IN  dropped(sipe_http_transport_drop(s, conn_private, stale_key))

RECURSIVE timeout_loop(_, _, _, _)
timeout_loop(s, conn_private, current_time, stale_key) ==
    LET next(s1, head) ==
            IF head = NULL THEN s1
            ELSE IF s1.entries[head].timeout > current_time
            THEN start_timer(s1, current_time)
            ELSE timeout_loop(s1, head, current_time, stale_key)
        dropped(s1) == next(s1, g_queue_peek_head(s1.timeouts))
    IN  dropped(sipe_http_transport_drop(s, conn_private, stale_key))

(* the scheduler has removed the action before it calls the handler *)
sipe_http_transport_timeout(s, data, current_time, stale_key) ==
    timeout_loop([s EXCEPT !.next_timeout = 0, !.timer = NoTimer],
                 data, current_time, stale_key)

RECURSIVE g_hash_table_destroy(_)
g_hash_table_destroy(s) ==
    IF DOMAIN s.connections = {} THEN s
    ELSE LET key == CHOOSE k \in DOMAIN s.connections :
                        \A k2 \in DOMAIN s.connections :
                            s.connections[k] <= s.connections[k2]
         IN  g_hash_table_destroy(g_hash_table_remove(s, key))

(* the scheduled action is left behind *)
sipe_http_free_keeps_timer(s) ==
    IF ~s.http THEN s
    ELSE LET s2 == g_hash_table_destroy(s)
         IN  [s2 EXCEPT !.timeouts = <<>>, !.next_timeout = 0,
                        !.http = FALSE]

sipe_http_free(s) ==
    IF ~s.http THEN s
    ELSE LET s1 == sipe_schedule_cancel(s)
             s2 == g_hash_table_destroy(s1)
         IN  [s2 EXCEPT !.timeouts = <<>>, !.next_timeout = 0,
                        !.http = FALSE]

(* the state is set up anew on every call *)
sipe_http_init_always(s) ==
    [s EXCEPT !.http = TRUE, !.connections = [k \in {} |-> NULL],
              !.timeouts = <<>>, !.next_timeout = 0]

sipe_http_init(s) ==
    IF s.http THEN s
    ELSE [s EXCEPT !.http = TRUE, !.connections = [k \in {} |-> NULL],
                   !.timeouts = <<>>, !.next_timeout = 0]

(* the signal of one socket marks every entry of the pool connected *)
sipe_http_transport_connected_all(s, k) ==
    sipe_http_request_next(
        [s EXCEPT !.entries =
            [i \in DOMAIN @ |->
                IF @[i].freed THEN @[i] ELSE [@[i] EXCEPT !.connected = TRUE]]],
        s.socks[k].owner)

sipe_http_transport_connected(s, k) ==
    LET conn_public == s.socks[k].owner
    IN  sipe_http_request_next(
            [s EXCEPT !.entries[conn_public].connected = TRUE],
            conn_public)

(* the socket is closed but the entry stays in the table *)
sipe_http_transport_error_disconnects_only(s, k) ==
    sipe_backend_transport_disconnect(s, k)

sipe_http_transport_error(s, k) ==
    sipe_http_transport_drop(s, s.socks[k].owner, <<>>)

sipe_http_transport_new(s, host_in, port, current_time) ==
    LET \* the entry is in the queue: start the timer when none is running
        queued(sd) ==
            IF sd.next_timeout = 0 THEN start_timer(sd, current_time) ELSE sd
        \* the entry has its socket and its deadline
        opened(sc, conn_public) ==
            queued([sc EXCEPT !.timeouts =
                       g_queue_insert_sorted(sc, @, conn_public)])
        connecting(sb, conn_public) ==
            opened([sb EXCEPT
                       !.entries[conn_public].connection = sb.ret,
                       !.entries[conn_public].timeout =
                           current_time + SIPE_HTTP_DEFAULT_TIMEOUT],
                   conn_public)
        \* conn_public is the entry of the destination
        have(s1, conn_public) ==
            [ (IF s1.entries[conn_public].connection = NULL
               THEN connecting(
                        sipe_backend_transport_connect(
                            [s1 EXCEPT !.entries[conn_public].connected = FALSE],
                            conn_public),
                        conn_public)
               ELSE s1)
              EXCEPT !.ret = conn_public ]
        created(sa, host_port) ==
            have([sa EXCEPT !.entries[sa.ret].host_port = host_port,
                            !.connections =
                                [k \in (DOMAIN @) \cup {host_port} |->
                                    IF k = host_port THEN sa.ret ELSE @[k]]],
                 sa.ret)
        \* the entry exists: take it out of the queue when it has no socket
        looked_up(s0, host, host_port, found) ==
            IF found # NULL
            THEN have(IF s0.entries[found].connection = NULL
                      THEN [s0 EXCEPT !.timeouts = g_queue_remove(@, found)]
                      ELSE s0,
                      found)
            ELSE created(sipe_http_connection_new(s0, host, port), host_port)
        initialised(s0, host, host_port) ==
            looked_up(s0, host, host_port,
                      g_hash_table_lookup(s0.connections, host_port))
        lowered(host) ==
            initialised(sipe_http_init(s), host, host_port_format(host, port))
    IN  lowered(g_ascii_strdown(host_in))

-----------------------------------------------------------------------------
(* C strings inside a buffer: positions are 1-based, a string starting at
   position from ends before the first NUL at or after from, or at the
   terminator that follows the last used byte *)

CRLF == <<CR, LF>>
CRLFCRLF == <<CR, LF, CR, LF>>

SetMin(S) == CHOOSE x \in S : \A y \in S : x <= y

MatchAt(buf, i, pat) ==
    /\ i + Len(pat) - 1 <= Len(buf)
    /\ \A j \in 1..Len(pat) : buf[i + j - 1] = pat[j]

CEnd(buf, from) ==
    LET nuls == { i \in from..Len(buf) : buf[i] = NUL }
    IN  IF nuls = {} THEN Len(buf) + 1 ELSE SetMin(nuls)

strlen(buf, from) == CEnd(buf, from) - from

(* position of the first occurrence, 0 when there is none *)
RECURSIVE strstr(_, _, _)
strstr(buf, from, pat) ==
    IF from + Len(pat) - 1 > Len(buf) THEN 0
    ELSE IF buf[from] = NUL THEN 0
    ELSE IF buf[from] = pat[1] /\ MatchAt(buf, from, pat) THEN from
    ELSE strstr(buf, from + 1, pat)

(* memmove of the unread rest to the start of the buffer *)
sipe_utils_shrink_buffer(buf, unread) == SubSeq(buf, unread, Len(buf))

HexDigits == <<"0","1","2","3","4","5","6","7","8","9","a","b","c","d","e","f">>

HexValue ==
    [ c \in { HexDigits[i] : i \in 1..16 } |->
        (CHOOSE i \in 1..16 : HexDigits[i] = c) - 1 ]

DigitValue(c, base) ==
    LET lc == g_ascii_tolower(c)
    IN  IF lc \in DOMAIN HexValue /\ HexValue[lc] < base THEN HexValue[lc]
        ELSE -1

IsSpace(c) == c \in {" ", "\t", CR, LF}

RECURSIVE SkipSpace(_, _)
SkipSpace(buf, i) ==
    IF i <= Len(buf) /\ IsSpace(buf[i]) THEN SkipSpace(buf, i + 1) ELSE i

RECURSIVE ParseDigits(_, _, _, _)
ParseDigits(buf, i, base, acc) ==
    IF i <= Len(buf) /\ DigitValue(buf[i], base) >= 0
    THEN ParseDigits(buf, i + 1, base, acc * base + DigitValue(buf[i], base))
    ELSE [value |-> acc, end |-> i]

(* g_ascii_strtoll(nptr, &endptr, base): white space, sign, 0x prefix, digits;
   endptr = nptr and value 0 when there is no digit *)
g_ascii_strtoll(buf, nptr, base) ==
    LET digits(neg, i3, r) ==
            IF r.end = i3 THEN [value |-> 0, end |-> nptr]
            ELSE [value |-> IF neg THEN 0 - r.value ELSE r.value, end |-> r.end]
        prefix(neg, i3) == digits(neg, i3, ParseDigits(buf, i3, base, 0))
        sign(neg, i2) ==
            prefix(neg, IF /\ base = 16
                           /\ i2 + 1 <= Len(buf)
                           /\ buf[i2] = "0"
                           /\ buf[i2 + 1] \in {"x", "X"}
                        THEN i2 + 2 ELSE i2)
        space(i1) ==
            sign(i1 <= Len(buf) /\ buf[i1] = "-",
                 IF i1 <= Len(buf) /\ buf[i1] \in {"-", "+"} THEN i1 + 1 ELSE i1)
    IN  space(SkipSpace(buf, nptr))

(* (guint) n.  n + 2^32 is beyond the integers TLC computes with, so a
   negative n, which only a signed size in the input can produce, becomes
   the largest value below 2^31 that keeps the order among negatives *)
UInt32(n) == IF n >= 0 THEN n ELSE 2147483000 + n

-----------------------------------------------------------------------------
(* sipmsg.c: header parser and header lookup *)

SIPMSG_BODYLEN_CHUNKED == -1

HDR_CONTENT_LENGTH == <<"C","o","n","t","e","n","t","-","L","e","n","g","t","h">>
HDR_TRANSFER_ENCODING == <<"T","r","a","n","s","f","e","r","-","E","n","c","o","d","i","n","g">>
HDR_CONNECTION == <<"C","o","n","n","e","c","t","i","o","n">>
HDR_CONTENT_TYPE == <<"C","o","n","t","e","n","t","-","T","y","p","e">>
STR_chunked == <<"c","h","u","n","k","e","d">>
STR_close == <<"c","l","o","s","e">>

sipe_strcase_equal(left, right) ==
    /\ left.found
    /\ g_ascii_strdown(left.value) = g_ascii_strdown(right)

RECURSIVE SplitLines(_)
SplitLines(text) ==
    LET p == strstr(text, 1, CRLF)
    IN  IF p = 0 THEN IF text = <<>> THEN <<>> ELSE <<text>>
        ELSE <<SubSeq(text, 1, p - 1)>> \o SplitLines(SubSeq(text, p + 2, Len(text)))

CountOf(text, c) == Cardinality({ i \in 1..Len(text) : text[i] = c })

RECURSIVE SkipBlank(_)
SkipBlank(text) ==
    IF text # <<>> /\ Head(text) \in {" ", "\t"} THEN SkipBlank(Tail(text)) ELSE text

ParseHeaderLine(line) ==
    LET p == strstr(line, 1, <<":">>)
    IN  [ name |-> SubSeq(line, 1, p - 1),
          value |-> SkipBlank(SubSeq(line, p + 1, Len(line))) ]

sipmsg_find_header_in(headers, name) ==
    LET hits == { i \in 1..Len(headers) :
                    g_ascii_strdown(headers[i].name) = g_ascii_strdown(name) }
    IN  IF hits = {} THEN [found |-> FALSE, value |-> <<>>]
        ELSE [found |-> TRUE, value |-> headers[SetMin(hits)].value]

sipmsg_find_header(msg, name) == sipmsg_find_header_in(msg.headers, name)

NoMsg == [ok |-> FALSE, headers |-> <<>>, bodylen |-> 0, body |-> <<>>]

sipmsg_parse_header(text) ==
    LET sized(headers, cl, te, ct) ==
            IF cl.found
            THEN [ ok |-> TRUE, headers |-> headers, body |-> <<>>,
                   bodylen |-> g_ascii_strtoll(cl.value, 1, 10).value ]
            ELSE IF sipe_strcase_equal(te, STR_chunked)
            THEN [ ok |-> TRUE, headers |-> headers, body |-> <<>>,
                   bodylen |-> SIPMSG_BODYLEN_CHUNKED ]
            ELSE IF ct.found THEN NoMsg
            ELSE [ ok |-> TRUE, headers |-> headers, body |-> <<>>,
                   bodylen |-> 0 ]
        parsed(headers) ==
            sized(headers,
                  sipmsg_find_header_in(headers, HDR_CONTENT_LENGTH),
                  sipmsg_find_header_in(headers, HDR_TRANSFER_ENCODING),
                  sipmsg_find_header_in(headers, HDR_CONTENT_TYPE))
        split(lines, hlines) ==
            IF lines = <<>> \/ CountOf(lines[1], " ") < 2 THEN NoMsg
            ELSE IF \E i \in 1..Len(hlines) : strstr(hlines[i], 1, <<":">>) = 0
            THEN NoMsg
            ELSE parsed([i \in 1..Len(hlines) |-> ParseHeaderLine(hlines[i])])
        status(lines) ==
            split(lines, IF lines = <<>> THEN <<>> ELSE Tail(lines))
    IN  status(SplitLines(text))

-----------------------------------------------------------------------------
(* sipe_http_transport_input, first half: find one message in the buffer *)

RECURSIVE SkipCRLF(_, _)
SkipCRLF(buf, i) ==
    IF i <= Len(buf) /\ buf[i] \in {CR, LF} THEN SkipCRLF(buf, i + 1) ELSE i

(* a chunk counts as finished without the CRLF that follows its data *)
RECURSIVE chunk_loop_no_trailer(_, _, _, _)
chunk_loop_no_trailer(buf, start, bodylen, chunks) ==
    IF strlen(buf, start) = 0
    THEN [incomplete |-> TRUE, bodylen |-> bodylen, chunks |-> chunks, start |-> start]
    ELSE
    LET stop(len) == [incomplete |-> TRUE, bodylen |-> len,
                      chunks |-> chunks, start |-> start]
        \* tmp is the first byte after the CRLF of the size line
        data(length, tmp, remainder) ==
            IF remainder < UInt32(length) THEN stop(bodylen + length)
            ELSE IF length = 0
            THEN [incomplete |-> FALSE, bodylen |-> bodylen + length,
                  chunks |-> chunks, start |-> tmp + length + 2]
            ELSE chunk_loop_no_trailer(buf, tmp + length + 2, bodylen + length,
                            Append(chunks, [length |-> length, start |-> tmp]))
        size(length, endptr, eol) ==
            IF length = 0 /\ endptr = start THEN stop(bodylen)
            ELSE IF eol = 0 THEN stop(bodylen + length)
            ELSE data(length, eol + 2, UInt32(Len(buf) - (eol + 1)))
        number(r) == size(UInt32(r.value), r.end, strstr(buf, r.end, CRLF))
    IN  number(g_ascii_strtoll(buf, start, 16))

RECURSIVE chunk_loop(_, _, _, _)
chunk_loop(buf, start, bodylen, chunks) ==
    IF strlen(buf, start) = 0
    THEN [incomplete |-> TRUE, bodylen |-> bodylen, chunks |-> chunks, start |-> start]
    ELSE
    LET stop(len) == [incomplete |-> TRUE, bodylen |-> len,
                      chunks |-> chunks, start |-> start]
        \* tmp is the first byte after the CRLF of the size line
        data(length, tmp, remainder) ==
            IF remainder < UInt32(length + 2) THEN stop(bodylen + length)
            ELSE IF length = 0
            THEN [incomplete |-> FALSE, bodylen |-> bodylen + length,
                  chunks |-> chunks, start |-> tmp + length + 2]
            ELSE chunk_loop(buf, tmp + length + 2, bodylen + length,
                            Append(chunks, [length |-> length, start |-> tmp]))
        size(length, endptr, eol) ==
            IF length = 0 /\ endptr = start THEN stop(bodylen)
            ELSE IF eol = 0 THEN stop(bodylen + length)
            ELSE data(length, eol + 2, UInt32(Len(buf) - (eol + 1)))
        number(r) == size(UInt32(r.value), r.end, strstr(buf, r.end, CRLF))
    IN  number(g_ascii_strtoll(buf, start, 16))

RECURSIVE chunk_copy(_, _)
chunk_copy(buf, chunks) ==
    IF chunks = <<>> THEN <<>>
    ELSE SubSeq(buf, Head(chunks).start, Head(chunks).start + Head(chunks).length - 1)
         \o chunk_copy(buf, Tail(chunks))

(* the body is chunked: buf is the buffer with the header cut off at
   current, restored the buffer with the header put back *)
frame_chunked(buf, restored, current, msg) ==
    LET chunks(c) ==
            IF c.incomplete
            THEN [outcome |-> "chunk_incomplete", buffer |-> restored,
                  msg |-> NoMsg]
            ELSE [outcome |-> "complete",
                  buffer |-> sipe_utils_shrink_buffer(buf, c.start),
                  msg |-> [msg EXCEPT !.bodylen = c.bodylen,
                                      !.body = chunk_copy(buf, c.chunks)]]
    IN  chunks(chunk_loop(buf, current + 2, 0, <<>>))

(* the body is copied but not counted as consumed *)
frame_fixed_keeps_body(buf, restored, current, msg) ==
    LET remainder == UInt32(Len(buf) - (current + 1))
    IN  IF remainder >= UInt32(msg.bodylen)
        THEN [outcome |-> "complete",
              buffer |-> sipe_utils_shrink_buffer(buf, current + 2),
              msg |-> [msg EXCEPT !.body =
                          SubSeq(buf, current + 2, current + 1 + msg.bodylen)]]
        ELSE [outcome |-> "body_short", buffer |-> restored, msg |-> NoMsg]

(* the header stays cut off when the body is too short *)
frame_fixed_no_restore(buf, restored, current, msg) ==
    LET remainder == UInt32(Len(buf) - (current + 1))
    IN  IF remainder >= UInt32(msg.bodylen)
        THEN [outcome |-> "complete",
              buffer |-> sipe_utils_shrink_buffer(buf, current + 2 + msg.bodylen),
              msg |-> [msg EXCEPT !.body =
                          SubSeq(buf, current + 2, current + 1 + msg.bodylen)]]
        ELSE [outcome |-> "body_short", buffer |-> buf, msg |-> NoMsg]

(* the body has msg.bodylen bytes *)
(* the body must be followed by at least one more byte *)
frame_fixed_strict(buf, restored, current, msg) ==
    LET remainder == UInt32(Len(buf) - (current + 1))
    IN  IF remainder > UInt32(msg.bodylen)
        THEN [outcome |-> "complete",
              buffer |-> sipe_utils_shrink_buffer(buf, current + 2 + msg.bodylen),
              msg |-> [msg EXCEPT !.body =
                          SubSeq(buf, current + 2, current + 1 + msg.bodylen)]]
        ELSE [outcome |-> "body_short", buffer |-> restored, msg |-> NoMsg]

frame_fixed(buf, restored, current, msg) ==
    LET remainder == UInt32(Len(buf) - (current + 1))
    IN  IF remainder >= UInt32(msg.bodylen)
        THEN [outcome |-> "complete",
              buffer |-> sipe_utils_shrink_buffer(buf, current + 2 + msg.bodylen),
              msg |-> [msg EXCEPT !.body =
                          SubSeq(buf, current + 2, current + 1 + msg.bodylen)]]
        ELSE [outcome |-> "body_short", buffer |-> restored, msg |-> NoMsg]

input_frame(buffer) ==
    LET \* restored: current[0] = '\r' puts the header back for the next try
        body(buf2, restored, current, msg) ==
            IF ~msg.ok
            THEN [outcome |-> "header_failed", buffer |-> restored,
                  msg |-> NoMsg]
            ELSE IF msg.bodylen = SIPMSG_BODYLEN_CHUNKED
            THEN frame_chunked(buf2, restored, current, msg)
            ELSE frame_fixed(buf2, restored, current, msg)
        \* buf2: current[0] = '\0' cuts the header block off as a C string
        header(buf2, current) ==
            body(buf2, [buf2 EXCEPT ![current] = CR], current,
                 sipmsg_parse_header(SubSeq(buf2, 1, CEnd(buf2, 1) - 1)))
        terminator(buf1, term) ==
            IF term = 0
            THEN [outcome |-> "no_terminator", buffer |-> buf1, msg |-> NoMsg]
            ELSE header([buf1 EXCEPT ![term + 2] = NUL], term + 2)
        stripped(buf1) == terminator(buf1, strstr(buf1, 1, CRLFCRLF))
        leading(first) ==
            stripped(IF first # 1 THEN sipe_utils_shrink_buffer(buffer, first)
                     ELSE buffer)
    IN  leading(SkipCRLF(buffer, 1))

(* sipe_http_transport_input, second half: deliver the message and keep,
   close or re-open the connection.  pending is what
   sipe_http_request_pending answers. *)
(* the closed socket stays in conn_private->connection *)
input_dispatch_keeps_socket(s, conn_public, msg, pending, current_time) ==
    LET closed(s3) ==
            IF pending
            THEN sipe_http_transport_new(s3, s3.entries[conn_public].host,
                                         s3.entries[conn_public].port,
                                         current_time)
            ELSE s3
        disconnected(s2) ==
            closed([s2 EXCEPT !.entries[conn_public].connected = FALSE])
        delivered(s1) ==
            IF sipe_strcase_equal(sipmsg_find_header(msg, HDR_CONNECTION),
                                  STR_close)
            THEN disconnected(sipe_backend_transport_disconnect(
                                  s1, s1.entries[conn_public].connection))
            ELSE IF pending THEN sipe_http_request_next(s1, conn_public)
            ELSE s1
    IN  delivered(Call(Call(s, <<"request_response", conn_public, msg>>),
                       <<"request_pending", conn_public>>))

(* the connected flag survives the close *)
input_dispatch_keeps_connected(s, conn_public, msg, pending, current_time) ==
    LET closed(s3) ==
            IF pending
            THEN sipe_http_transport_new(s3, s3.entries[conn_public].host,
                                         s3.entries[conn_public].port,
                                         current_time)
            ELSE s3
        disconnected(s2) ==
            closed([s2 EXCEPT !.entries[conn_public].connection = NULL])
        delivered(s1) ==
            IF sipe_strcase_equal(sipmsg_find_header(msg, HDR_CONNECTION),
                                  STR_close)
            THEN disconnected(sipe_backend_transport_disconnect(
                                  s1, s1.entries[conn_public].connection))
            ELSE IF pending THEN sipe_http_request_next(s1, conn_public)
            ELSE s1
    IN  delivered(Call(Call(s, <<"request_response", conn_public, msg>>),
                       <<"request_pending", conn_public>>))

(* a pending request is sent on, whether or not the server asked to close *)
input_dispatch_next_after_close(s, conn_public, msg, pending, current_time) ==
    LET closed(s3) ==
            IF pending
            THEN sipe_http_request_next(
                     sipe_http_transport_new(s3, s3.entries[conn_public].host,
                                             s3.entries[conn_public].port,
                                             current_time),
                     conn_public)
            ELSE s3
        disconnected(s2) ==
            closed([s2 EXCEPT !.entries[conn_public].connection = NULL,
                              !.entries[conn_public].connected = FALSE])
        delivered(s1) ==
            IF sipe_strcase_equal(sipmsg_find_header(msg, HDR_CONNECTION),
                                  STR_close)
            THEN disconnected(sipe_backend_transport_disconnect(
                                  s1, s1.entries[conn_public].connection))
            ELSE IF pending THEN sipe_http_request_next(s1, conn_public)
            ELSE s1
    IN  delivered(Call(Call(s, <<"request_response", conn_public, msg>>),
                       <<"request_pending", conn_public>>))

input_dispatch(s, conn_public, msg, pending, current_time) ==
    LET closed(s3) ==
            IF pending
            THEN sipe_http_transport_new(s3, s3.entries[conn_public].host,
                                         s3.entries[conn_public].port,
                                         current_time)
            ELSE s3
        disconnected(s2) ==
            closed([s2 EXCEPT !.entries[conn_public].connection = NULL,
                            !.entries[conn_public].connected = FALSE])
        delivered(s1) ==
            IF sipe_strcase_equal(sipmsg_find_header(msg, HDR_CONNECTION),
                                  STR_close)
            THEN disconnected(sipe_backend_transport_disconnect(
                                  s1, s1.entries[conn_public].connection))
            ELSE IF pending THEN sipe_http_request_next(s1, conn_public)
            ELSE s1
    IN  delivered(Call(Call(s, <<"request_response", conn_public, msg>>),
                       <<"request_pending", conn_public>>))

(* the handler goes on while the buffer holds a message *)
RECURSIVE sipe_http_transport_input_drains(_, _, _, _)
sipe_http_transport_input_drains(s, k, pending, current_time) ==
    LET again(s2) ==
            IF s2.socks[k].open
               /\ input_frame(s2.socks[k].buffer).outcome = "complete"
            THEN sipe_http_transport_input_drains(s2, k, pending, current_time)
            ELSE s2
        framed(f, s1) ==
            IF f.outcome = "complete"
            THEN again(input_dispatch(s1, s.socks[k].owner, f.msg, pending,
                                      current_time))
            ELSE s1
        frame(f) ==
            framed(f, [s EXCEPT !.socks[k].buffer = f.buffer,
                                !.frame = [ outcome |-> f.outcome,
                                            input |-> s.socks[k].buffer,
                                            rest |-> f.buffer,
                                            body |-> f.msg.body,
                                            bodylen |-> f.msg.bodylen ]])
    IN  frame(input_frame(s.socks[k].buffer))

sipe_http_transport_input(s, k, pending, current_time) ==
    LET framed(f, s1) ==
            IF f.outcome = "complete"
            THEN input_dispatch(s1, s.socks[k].owner, f.msg, pending,
                                current_time)
            ELSE s1
        frame(f) ==
            framed(f, [s EXCEPT !.socks[k].buffer = f.buffer,
                                !.frame = [ outcome |-> f.outcome,
                                            input |-> s.socks[k].buffer,
                                            rest |-> f.buffer,
                                            body |-> f.msg.body,
                                            bodylen |-> f.msg.bodylen ]])
    IN  frame(input_frame(s.socks[k].buffer))

(* the backend appends what it has read to connection->buffer and then
   calls the input handler *)
backend_read(s, k, bytes) == [s EXCEPT !.socks[k].buffer = @ \o bytes]

-----------------------------------------------------------------------------
(* What a server can send: messages as the wire format encodes them *)

STATUS_LINE == <<"H","T","T","P","/","1",".","1"," ","2","0","0"," ","O","K">>
STR_Close == <<"C","l","o","s","e">>
STR_keep_alive == <<"k","e","e","p","-","a","l","i","v","e">>
STR_text_xml == <<"t","e","x","t","/","x","m","l">>
STR_hello == <<"h","e","l","l","o">>

RECURSIVE FormatHex(_)
FormatHex(n) ==
    IF n < 16 THEN <<HexDigits[n + 1]>>
    ELSE FormatHex(n \div 16) \o <<HexDigits[(n % 16) + 1]>>

RECURSIVE Concat(_)
Concat(seqs) == IF seqs = <<>> THEN <<>> ELSE Head(seqs) \o Concat(Tail(seqs))

HeaderLine(name, value) == name \o <<":", " ">> \o value \o CRLF

HeaderBlock(lines) == STATUS_LINE \o CRLF \o Concat(lines) \o CRLF

ConnectionLine(m) ==
    IF m.conn = <<>> THEN <<>> ELSE <<HeaderLine(HDR_CONNECTION, m.conn)>>

EncodeChunk(data) == FormatHex(Len(data)) \o CRLF \o data \o CRLF

EncodeBody(m) ==
    IF m.kind = "chunked"
    THEN Concat([i \in 1..Len(m.chunks) |-> EncodeChunk(m.chunks[i])])
         \o <<"0">> \o CRLF \o CRLF
    ELSE Concat(m.chunks)

EncodeHeader(m) ==
    HeaderBlock(
        (CASE m.kind = "fixed" ->
                <<HeaderLine(HDR_CONTENT_LENGTH, FormatUInt(Len(Concat(m.chunks))))>>
           [] m.kind = "chunked" ->
                <<HeaderLine(HDR_TRANSFER_ENCODING, STR_chunked)>>
           [] OTHER -> <<>>)
        \o ConnectionLine(m))

Encode(m) == EncodeHeader(m) \o EncodeBody(m)

Msg(kind, chunks, conn) == [kind |-> kind, chunks |-> chunks, conn |-> conn]

LongChunk == STR_hello \o <<" ">> \o STR_keep_alive \o <<"!">>

FirstMsgs ==
    { Msg("bare", <<>>, <<>>),
      Msg("bare", <<>>, STR_Close),
      Msg("fixed", <<STR_hello>>, <<>>),
      Msg("fixed", <<CRLFCRLF>>, STR_keep_alive),
      Msg("fixed", <<STR_hello>>, STR_close),
      Msg("chunked", <<>>, <<>>),
      Msg("chunked", <<STR_hello>>, <<>>),
      Msg("chunked", <<<<"a", "b">>, <<CR, LF, "0", CR, LF>>>>, STR_keep_alive),
      Msg("chunked", <<LongChunk, <<"0">>>>, STR_close) }

SecondMsgs ==
    { Msg("fixed", <<<<"0", CR, LF>>>>, <<>>),
      Msg("chunked", <<<<"h", "i">>>>, <<>>) }

(* input that never becomes a message *)
Junk ==
    { <<>>,
      <<"H","T","T","P">>,
      <<"g","a","r","b","a","g","e">> \o CRLFCRLF,
      HeaderBlock(<<HeaderLine(HDR_CONTENT_TYPE, STR_text_xml)>>),
      HeaderBlock(<<<<"n","o","c","o","l","o","n">> \o CRLF>>),
      HeaderBlock(<<HeaderLine(HDR_TRANSFER_ENCODING, STR_chunked)>>)
          \o <<"z", "z">> \o CRLF \o <<"0">> \o CRLFCRLF,
      HeaderBlock(<<HeaderLine(HDR_CONTENT_LENGTH, <<"9">>)>>) \o STR_hello }

(* where the k-th of the messages ends when they follow lead *)
RECURSIVE MsgEnd(_, _, _)
MsgEnd(lead, msgs, k) ==
    IF k = 0 THEN Len(lead)
    ELSE MsgEnd(lead, msgs, k - 1) + Len(Encode(msgs[k]))

Stream(lead, msgs, junk) ==
    [ lead |-> lead, msgs |-> msgs, junk |-> junk,
      bytes |-> lead \o Concat([i \in 1..Len(msgs) |-> Encode(msgs[i])]) \o junk,
      ends |-> [k \in 1..Len(msgs) |-> MsgEnd(lead, msgs, k)] ]

KeepAliveMsgs == { m \in FirstMsgs : m.conn \in {<<>>, STR_keep_alive} }

OneSecondMsg == Msg("chunked", <<<<"h", "i">>>>, <<>>)

Streams ==
    { Stream(<<>>, <<m>>, <<>>) : m \in FirstMsgs }
    \cup { Stream(CRLF, <<m>>, <<>>) : m \in SecondMsgs }
    \cup { Stream(<<>>, <<m[1], m[2]>>, <<>>) : m \in KeepAliveMsgs \X SecondMsgs }
    \cup { Stream(<<LF>>, <<>>, j) : j \in Junk }
    \cup { Stream(<<>>, <<OneSecondMsg>>, j) : j \in Junk }

NoStream == Stream(<<>>, <<>>, <<>>)

(* the backend reads a few bytes, or up to the end of a message, or all
   there is *)
PieceSizes(st, pos) ==
    { n \in 1..(Len(st.bytes) - pos) :
        \/ n <= MaxPiece
        \/ pos + n = Len(st.bytes)
        \/ \E k \in 1..Len(st.msgs) : pos + n = st.ends[k] }

(* what the pool specification lets a server send in one read *)
PoolData ==
    { Encode(Msg("bare", <<>>, <<>>)),
      Encode(Msg("bare", <<>>, STR_Close)),
      STATUS_LINE \o CRLF \o HDR_CONNECTION \o <<":", " ">> \o STR_Close }

-----------------------------------------------------------------------------
(* Specification of the pool, the timer and the handlers *)

EmptyTable == [k \in {} |-> NULL]

NoLast ==
    [ op |-> "init", host |-> <<>>, port |-> 0, sock |-> NULL,
      pending |-> FALSE, fed |-> 0, frame |-> NoFrame, ret |-> NULL ]

Init ==
    /\ http = FALSE
    /\ connections = EmptyTable
    /\ entries = <<>>
    /\ timeouts = <<>>
    /\ next_timeout = 0
    /\ timer = NoTimer
    /\ socks = <<>>
    /\ now = 0
    /\ calls = <<>>
    /\ last = NoLast
    /\ stream = NoStream
    /\ sent = 0
    /\ dispatched = <<>>

Apply(r) ==
    /\ http' = r.http
    /\ connections' = r.connections
    /\ entries' = r.entries
    /\ timeouts' = r.timeouts
    /\ next_timeout' = r.next_timeout
    /\ timer' = r.timer
    /\ socks' = r.socks
    /\ calls' = r.calls

GetOrCreate(host, port) ==
    \E r \in {sipe_http_transport_new(State, host, port, now)} :
        /\ Len(r.socks) <= MaxSocks
        /\ Apply(r)
        /\ last' = [NoLast EXCEPT !.op = "new", !.host = host, !.port = port,
                                  !.ret = r.ret]
        /\ UNCHANGED <<now, stream, sent, dispatched>>

OnConnected(k) ==
    /\ socks[k].open
    /\ ~entries[socks[k].owner].connected
    /\ Apply(sipe_http_transport_connected(State, k))
    /\ last' = [NoLast EXCEPT !.op = "connected", !.sock = k]
    /\ UNCHANGED <<now, stream, sent, dispatched>>

OnData(k, bytes, pending) ==
    /\ socks[k].open
    /\ entries[socks[k].owner].connected
    /\ Len(socks[k].buffer) + Len(bytes) <= MaxBuf
    /\ \E r \in {sipe_http_transport_input(backend_read(State, k, bytes), k,
                                            pending, now)} :
           /\ Len(r.socks) <= MaxSocks
           /\ Apply(r)
           /\ last' = [NoLast EXCEPT !.op = "data", !.sock = k,
                                     !.pending = pending, !.fed = Len(bytes),
                                     !.frame = r.frame]
           /\ UNCHANGED <<now, stream, sent, dispatched>>

OnError(k) ==
    /\ socks[k].open
    /\ Apply(sipe_http_transport_error(State, k))
    /\ last' = [NoLast EXCEPT !.op = "error", !.sock = k]
    /\ UNCHANGED <<now, stream, sent, dispatched>>

TimerFire(stale_key) ==
    /\ timer.pending
    /\ now >= timer.due
    /\ Apply(sipe_http_transport_timeout(State, timer.payload, now, stale_key))
    /\ last' = [NoLast EXCEPT !.op = "timeout"]
    /\ UNCHANGED <<now, stream, sent, dispatched>>

DestroyAll ==
    /\ Apply(sipe_http_free(State))
    /\ last' = [NoLast EXCEPT !.op = "free"]
    /\ UNCHANGED <<now, stream, sent, dispatched>>

Tick ==
    /\ now + TickStep <= MaxTime
    /\ now' = now + TickStep
    /\ calls' = <<>>
    /\ last' = [NoLast EXCEPT !.op = "tick"]
    /\ UNCHANGED <<http, connections, entries, timeouts, next_timeout, timer,
                   socks, stream, sent, dispatched>>

Next ==
    \/ \E d \in Dests : GetOrCreate(d[1], d[2])
    \/ \E k \in DOMAIN socks : OnConnected(k)
    \/ \E k \in DOMAIN socks, bytes \in PoolData, pending \in BOOLEAN :
           OnData(k, bytes, pending)
    \/ \E k \in DOMAIN socks : OnError(k)
    \/ \E stale_key \in DOMAIN connections \cup {<<>>} : TimerFire(stale_key)
    \/ DestroyAll
    \/ Tick

Spec == Init /\ [][Next]_vars

-----------------------------------------------------------------------------
(* Specification of the input handler on one connection: the server sends
   one of Streams and the backend reads it in pieces of any size *)

(* Specification of the pool while it is in use: sipe_http_free is not
   called, the clock goes on and the scheduler runs an action that is due *)

NextInUse ==
    \/ \E d \in Dests : GetOrCreate(d[1], d[2])
    \/ \E k \in DOMAIN socks : OnConnected(k)
    \/ \E k \in DOMAIN socks, bytes \in PoolData, pending \in BOOLEAN :
           OnData(k, bytes, pending)
    \/ \E k \in DOMAIN socks : OnError(k)
    \/ \E stale_key \in DOMAIN connections \cup {<<>>} : TimerFire(stale_key)
    \/ Tick

(* the scheduled action is due *)
TimerDue == timer.pending /\ now >= timer.due

(* the scheduler runs the action *)
TimerRuns ==
    \E stale_key \in DOMAIN connections \cup {<<>>} : TimerFire(stale_key)

(* WF_vars(TimerRuns) with its ENABLED written out: a step of TimerRuns is
   possible exactly when TimerDue holds, and it always changes timer *)
TimerFair == []<>~TimerDue \/ []<><<TimerRuns>>_vars

SpecInUse ==
    /\ Init
    /\ [][NextInUse]_vars
    /\ WF_vars(Tick)
    /\ TimerFair

-----------------------------------------------------------------------------
EmptyState ==
    [ http |-> FALSE, connections |-> EmptyTable, entries |-> <<>>,
      timeouts |-> <<>>, next_timeout |-> 0, timer |-> NoTimer,
      socks |-> <<>>, calls |-> <<>>, ret |-> NULL, frame |-> NoFrame ]

FirstConnection ==
    sipe_http_transport_connected(
        sipe_http_transport_new(EmptyState, <<"a">>, 443, 0), 1)

InitFramer ==
    /\ http = FirstConnection.http
    /\ connections = FirstConnection.connections
    /\ entries = FirstConnection.entries
    /\ timeouts = FirstConnection.timeouts
    /\ next_timeout = FirstConnection.next_timeout
    /\ timer = FirstConnection.timer
    /\ socks = FirstConnection.socks
    /\ now = 0
    /\ calls = <<>>
    /\ last = NoLast
    /\ stream \in Streams
    /\ sent = 0
    /\ dispatched = <<>>

Responses(cs) == SelectSeq(cs, LAMBDA c : c[1] = "request_response")

Feed(n, pending) ==
    /\ socks[1].open
    /\ \E r \in {sipe_http_transport_input(
                      backend_read(State, 1,
                                   SubSeq(stream.bytes, sent + 1, sent + n)),
                      1, pending, now)} :
           /\ Len(r.socks) <= MaxSocks
           /\ Apply(r)
           /\ last' = [NoLast EXCEPT !.op = "data", !.sock = 1,
                                     !.pending = pending, !.fed = n,
                                     !.frame = r.frame]
           /\ sent' = sent + n
           /\ \E responses \in {Responses(r.calls)} :
                  dispatched' = dispatched \o
                      [i \in 1..Len(responses) |-> responses[i][3]]
           /\ UNCHANGED <<now, stream>>

NextFramer ==
    \E n \in PieceSizes(stream, sent), pending \in BOOLEAN :
        Feed(n, pending)

SpecFramer == InitFramer /\ [][NextFramer]_vars

-----------------------------------------------------------------------------
(* Vocabulary of the properties *)

Live == { i \in 1..Len(entries) : ~entries[i].freed }

Registered(i) == \E k \in DOMAIN connections : connections[k] = i

FoldCase(str) ==
    [ i \in 1..Len(str) |->
        IF \E j \in 1..26 : UpperCase[j] = str[i]
        THEN LowerCase[CHOOSE j \in 1..26 : UpperCase[j] = str[i]]
        ELSE str[i] ]

DestOf(i) == <<FoldCase(entries[i].host), entries[i].port>>

CallsOf(name) == SelectSeq(calls, LAMBDA c : c[1] = name)

HasCloseDirective(msg) ==
    \E i \in 1..Len(msg.headers) :
        /\ FoldCase(msg.headers[i].name) = FoldCase(HDR_CONNECTION)
        /\ FoldCase(msg.headers[i].value) = STR_close

-----------------------------------------------------------------------------
(* C1: the pool holds one entry per destination, where destinations are
   compared by port and by host name without regard to letter case; the
   entry sipe_http_transport_new returns is the one of the destination asked
   for, so two calls whose hosts differ in case only get the same entry and
   calls for different destinations get different ones *)
C1_OneEntryPerDestination ==
    /\ \A i, j \in Live : DestOf(i) = DestOf(j) => i = j
    /\ \A k \in DOMAIN connections : connections[k] \in Live
    /\ Cardinality(DOMAIN connections) = Cardinality(Live)
    /\ last.op = "new" =>
           /\ last.ret \in Live
           /\ DestOf(last.ret) = <<FoldCase(last.host), last.port>>

(* an upper case host finds the entry that is there, next to another one *)
C1_Witness ==
    /\ last.op = "new"
    /\ last.host = <<"A">>
    /\ calls = <<>>
    /\ Cardinality(DOMAIN connections) = 2

(* C2: a fire of the timer at time now evicts exactly the queued entries
   whose deadline is not after now, and leaves the timer armed for the
   smallest deadline that remains, or idle when nothing remains *)
C2_TimerEvictsExactlyExpired ==
    [][ last'.op = "timeout" =>
          /\ { i \in Live : entries'[i].freed }
                 = { i \in Live : Registered(i) /\ entries[i].timeout <= now }
          /\ IF timeouts' = <<>>
             THEN ~timer'.pending /\ next_timeout' = 0
             ELSE /\ timer'.pending
                  /\ timer'.due = entries'[Head(timeouts')].timeout
                  /\ next_timeout' = timer'.due
                  /\ \A i \in 1..Len(timeouts') :
                         entries'[timeouts'[i]].timeout >= timer'.due ]_vars

(* C3: between handlers next_timeout is the deadline of the head of the
   timeout queue, and 0 when the queue is empty *)
C3_NextTimeoutIsHeadDeadline ==
    next_timeout = IF timeouts = <<>> THEN 0
                   ELSE entries[Head(timeouts)].timeout

(* C4: the entry sipe_http_transport_new returns is registered under its
   key, has its private record, and has an open socket that is the one it
   had or the one a connect of this call returned *)
C4_ReturnedHandleValid ==
    last.op = "new" =>
        /\ last.ret \in Live
        /\ entries[last.ret].host_port \in DOMAIN connections
        /\ connections[entries[last.ret].host_port] = last.ret
        /\ entries[last.ret].connection # NULL
        /\ socks[entries[last.ret].connection].open
        /\ socks[entries[last.ret].connection].owner = last.ret
        /\ \/ CallsOf("connect") = <<>>
           \/ /\ Len(CallsOf("connect")) = 1
              /\ CallsOf("connect")[1][5] = entries[last.ret].connection

(* the first entry is returned with the second socket: it was re-established *)
C4_Witness ==
    /\ last.op = "new"
    /\ last.ret = 1
    /\ entries[1].connection = 2

(* C5: every element of the timeout queue is an entry that is registered in
   the pool and has not been released *)
C5_QueueHoldsOnlyLiveEntries ==
    \A i \in 1..Len(timeouts) :
        timeouts[i] \in Live /\ Registered(timeouts[i])

(* an error released one entry while another one waits in the queue *)
C5_Witness ==
    /\ last.op = "error"
    /\ timeouts # <<>>
    /\ Len(entries) = 2

(* C6: after the input handler delivered a message that asks to close, the
   socket it arrived on is disconnected and the entry is not connected; the
   entry has no socket unless a request was pending, and it is still
   registered *)
C6_CloseDisconnects ==
    ( /\ last.op = "data"
      /\ CallsOf("request_response") # <<>>
      /\ HasCloseDirective(CallsOf("request_response")[1][3]) ) =>
        LET id == CallsOf("request_response")[1][2]
        IN  /\ \E i \in 1..Len(calls) : calls[i] = <<"disconnect", last.sock>>
            /\ ~socks[last.sock].open
            /\ ~entries[id].connected
            /\ ~last.pending => entries[id].connection = NULL
            /\ id \in Live
            /\ connections[entries[id].host_port] = id

(* a close arrived with nothing pending *)
C6_Witness ==
    /\ last.op = "data"
    /\ CallsOf("request_response") # <<>>
    /\ HasCloseDirective(CallsOf("request_response")[1][3])
    /\ ~last.pending
    /\ entries[CallsOf("request_response")[1][2]].connection = NULL

-----------------------------------------------------------------------------
(* Vocabulary of the properties of the input handler *)

RECURSIVE StripLead(_)
StripLead(buf) ==
    IF buf # <<>> /\ Head(buf) \in {CR, LF} THEN StripLead(Tail(buf)) ELSE buf

ExpectedBody(m) == Concat(m.chunks)

RECURSIVE SumOfSizes(_)
SumOfSizes(chunks) ==
    IF chunks = <<>> THEN 0 ELSE Len(Head(chunks)) + SumOfSizes(Tail(chunks))

Unfinished == {"no_terminator", "header_failed", "chunk_incomplete", "body_short"}

(* C7: one run of the input handler drains the buffer: every message of the
   stream that has arrived in full has been delivered, and what is left in
   the buffer is no complete message *)
C7_SingleEventDrainsBuffer ==
    (last.op = "data" /\ socks[1].open) =>
        /\ input_frame(socks[1].buffer).outcome # "complete"
        /\ \A k \in 1..Len(stream.msgs) :
               sent >= stream.ends[k] => Len(dispatched) >= k

(* C7 as the code has it: one run of the input handler delivers the first
   message of the buffer and no other, in the order of the stream, and
   leaves the rest of the buffer as the framer left it *)
C7_OneMessagePerEvent ==
    last.op = "data" =>
        /\ Len(CallsOf("request_response"))
               = (IF last.frame.outcome = "complete" THEN 1 ELSE 0)
        /\ Len(dispatched) <= Len(stream.msgs)
        /\ last.frame.outcome = "complete" =>
               dispatched[Len(dispatched)].body
                   = ExpectedBody(stream.msgs[Len(dispatched)])
        /\ socks[1].open => socks[1].buffer = last.frame.rest

(* a message was delivered and a complete message is still in the buffer *)
C7_Witness ==
    /\ last.op = "data"
    /\ last.frame.outcome = "complete"
    /\ socks[1].open
    /\ input_frame(socks[1].buffer).outcome = "complete"

(* C8: when the framer completes the k-th message M of the stream on a
   buffer M ++ T, the buffer it leaves is T; the messages delivered one
   after the other carry the bodies that were sent *)
C8_CompleteLeavesTail ==
    /\ Len(dispatched) <= Len(stream.msgs)
    /\ last.frame.outcome = "complete" =>
           StripLead(last.frame.input)
               = Encode(stream.msgs[Len(dispatched)]) \o last.frame.rest
    /\ \A k \in 1..Len(dispatched) :
           dispatched[k].body = ExpectedBody(stream.msgs[k])

(* the second message is framed out of the tail the first one left *)
C8_Witness ==
    /\ last.frame.outcome = "complete"
    /\ Len(dispatched) = 2
    /\ last.fed = 1
    /\ last.frame.input = Encode(stream.msgs[2])

(* C9: a chunked message is not delivered before its last byte, the CRLF
   after the zero-size chunk line, has arrived; the first message of the
   stream is delivered by the event that brings that byte; a delivered
   chunked message has the chunk payloads in order as its body and the sum
   of the chunk sizes as its length, and is delivered once *)
C9_ChunkedAcrossEvents ==
    /\ Len(dispatched) <= Len(stream.msgs)
    /\ \A k \in 1..Len(stream.msgs) :
           stream.msgs[k].kind = "chunked" =>
               /\ Len(dispatched) >= k => sent >= stream.ends[k]
               /\ (k = 1 /\ sent >= stream.ends[1]) => Len(dispatched) >= 1
               /\ Len(dispatched) >= k =>
                      /\ dispatched[k].body = ExpectedBody(stream.msgs[k])
                      /\ dispatched[k].bodylen = SumOfSizes(stream.msgs[k].chunks)

(* a message of two chunks is delivered when its last byte arrives alone *)
C9_Witness ==
    /\ Len(stream.msgs) >= 1
    /\ stream.msgs[1].kind = "chunked"
    /\ Len(stream.msgs[1].chunks) = 2
    /\ Len(dispatched) = 1
    /\ last.frame.outcome = "complete"
    /\ last.fed = 1
    /\ sent = stream.ends[1]

(* C10: when the framer finds no message the buffer is the one it was
   called on without its leading CR and LF bytes, nothing is delivered, and
   the framer run again on that buffer ends the same way and leaves it
   unchanged *)
C10_UnfinishedLeavesBuffer ==
    (last.op = "data" /\ last.frame.outcome \in Unfinished) =>
        /\ last.frame.rest = StripLead(last.frame.input)
        /\ socks[1].buffer = last.frame.rest
        /\ calls = <<>>
        /\ input_frame(last.frame.rest).outcome = last.frame.outcome
        /\ input_frame(last.frame.rest).buffer = last.frame.rest

(* the header parser refused a header block that came after a line feed *)
C10_Witness ==
    /\ last.op = "data"
    /\ last.frame.outcome = "header_failed"
    /\ last.frame.input # last.frame.rest

-----------------------------------------------------------------------------
(* Vocabulary of the properties of one step: what the handler found *)

(* the key sipe_http_transport_new looks the destination up under *)
KeyOf(host, port) == host_port_format(FoldCase(host), port)

Occurrences(queue, id) ==
    Cardinality({ j \in 1..Len(queue) : queue[j] = id })

(* C11: after on_error the entry of the socket is not in the pool under its
   key and not in the timeout queue, it has been released, its socket has
   been disconnected exactly when it had one, and request_shutdown has been
   called for it once; sipe_http_transport_new for a destination the pool
   does not hold creates a fresh entry and registers it *)
C11_ErrorTearsDown ==
    [][ /\ last'.op = "error" =>
               LET id  == socks[last'.sock].owner
                   key == entries[socks[last'.sock].owner].host_port
               IN  /\ key \notin DOMAIN connections'
                   /\ Occurrences(timeouts', id) = 0
                   /\ entries'[id].freed
                   /\ ~socks'[last'.sock].open
                   /\ CallsOf("disconnect")' =
                          (IF entries[id].connection # NULL
                           THEN << <<"disconnect", entries[id].connection>> >>
                           ELSE <<>>)
                   /\ CallsOf("request_shutdown")' = << <<"request_shutdown", id>> >>
        /\ ( /\ last'.op = "new"
             /\ KeyOf(last'.host, last'.port) \notin DOMAIN connections ) =>
               /\ last'.ret = Len(entries) + 1
               /\ Len(entries') = Len(entries) + 1
               /\ ~entries'[last'.ret].freed
               /\ connections'[KeyOf(last'.host, last'.port)] = last'.ret
      ]_vars

(* errors on two sockets released the two entries there were *)
C11_Witness ==
    /\ last.op = "error"
    /\ Len(entries) = 2
    /\ entries[1].freed
    /\ entries[2].freed
    /\ Cardinality({ k \in DOMAIN socks : socks[k].disc = 1 }) = 2

(* C12: after sipe_http_free the timer is not scheduled, every entry has
   been released and every socket that was open has been disconnected, the
   pool and the timeout queue are empty and the state is unset; on an unset
   state it changes nothing and calls nothing; sipe_http_transport_new sets
   the state up again *)
C12_DestroyAllUnsets ==
    [][ /\ last'.op = "free" =>
               /\ ~http'
               /\ ~timer'.pending
               /\ next_timeout' = 0
               /\ DOMAIN connections' = {}
               /\ timeouts' = <<>>
               /\ \A i \in 1..Len(entries') : entries'[i].freed
               /\ \A k \in DOMAIN socks' : ~socks'[k].open
               /\ \A k \in DOMAIN socks :
                      socks[k].open <=>
                          Occurrences(calls', <<"disconnect", k>>) = 1
               /\ Len(CallsOf("request_shutdown")') = Cardinality(Live)
               /\ http => Occurrences(calls', <<"cancel">>) = 1
               /\ ~http =>
                      /\ calls' = <<>>
                      /\ UNCHANGED <<connections, entries, timeouts,
                                     next_timeout, timer, socks>>
        /\ last'.op = "new" => http'
      ]_vars

(* two open sockets were disconnected by sipe_http_free *)
C12_Witness ==
    /\ last.op = "free"
    /\ Len(CallsOf("disconnect")) = 2
    /\ Len(CallsOf("cancel")) = 1

(* the timer is scheduled for entry i, which is live, and the deadline of i
   is no longer the one the timer was scheduled for: i was re-established
   through sipe_http_transport_new while the timer was waiting for it *)
ReusedBeforeExpiry(i) ==
    /\ timer.pending
    /\ timer.payload = i
    /\ ~entries[i].freed
    /\ entries[i].timeout # timer.due

(* C13: an entry that was reused through sipe_http_transport_new before its
   deadline expired has left the timeout queue with that deadline: a fire of
   the timer does not evict it before the deadline it has now *)
C13_ReusedNotEvictedAtOldDeadline ==
    [][ last'.op = "timeout" =>
            \A i \in Live :
                (ReusedBeforeExpiry(i) /\ entries'[i].freed) =>
                    entries[i].timeout <= now ]_vars

(* the step is a sipe_http_transport_new that finds no entry under the key,
   or an entry without socket *)
NewEstablishes ==
    /\ last'.op = "new"
    /\ \/ KeyOf(last'.host, last'.port) \notin DOMAIN connections
       \/ entries[connections[KeyOf(last'.host, last'.port)]].connection = NULL

(* the step is an input handler that delivers a close while a request is
   pending, and so calls sipe_http_transport_new for its own entry *)
DataReconnects ==
    /\ last'.op = "data"
    /\ last'.frame.outcome = "complete"
    /\ last'.pending
    /\ HasCloseDirective(CallsOf("request_response")'[1][3])

(* C14: when sipe_http_transport_new establishes or re-establishes a socket
   it calls the backend connect once, with TLS and the entry's host and
   port, and takes what it returns as the entry's socket; the entry is not
   connected, its deadline is now + 60, it is in the timeout queue once; the
   timer is scheduled for the deadline of the head of the queue when
   next_timeout was 0, and left alone otherwise *)
C14_EstablishConnectsAndQueues ==
    [][ (NewEstablishes \/ DataReconnects) =>
            LET id == IF last'.op = "new" THEN last'.ret
                      ELSE socks[last'.sock].owner
            IN  /\ entries'[id].connection # NULL
                /\ CallsOf("connect")' =
                       << <<"connect", "TLS", entries'[id].host,
                            entries'[id].port, entries'[id].connection>> >>
                /\ entries'[id].host = FoldCase(entries'[id].host)
                /\ ~entries'[id].connected
                /\ entries'[id].timeout = now + SIPE_HTTP_DEFAULT_TIMEOUT
                /\ Occurrences(timeouts', id) = 1
                /\ (next_timeout = 0) <=> ~timer.pending
                /\ IF next_timeout = 0
                   THEN /\ timer'.pending
                        /\ timer'.payload = Head(timeouts')
                        /\ timer'.due = entries'[Head(timeouts')].timeout
                        /\ next_timeout' = timer'.due
                        /\ CallsOf("schedule")' =
                               << <<"schedule", Head(timeouts'),
                                    timer'.due - now>> >>
                   ELSE /\ timer' = timer
                        /\ next_timeout' = next_timeout
                        /\ CallsOf("schedule")' = <<>>
      ]_vars

(* a second entry was connected when no timer was scheduled any more, the
   first one being gone: the timer was scheduled again *)
C14_Witness ==
    /\ last.op = "new"
    /\ now > 0
    /\ Len(CallsOf("connect")) = 1
    /\ Len(CallsOf("schedule")) = 1
    /\ Len(timeouts) = 1
    /\ Len(entries) = 2

(* C15: sipe_http_transport_new for a destination whose entry has a socket
   returns that entry, calls no collaborator, and leaves the entries with
   their sockets, flags and deadlines, the sockets, the timeout queue, the
   pool and the timer as they were *)
C15_LiveReuseChangesNothing ==
    [][ ( /\ last'.op = "new"
          /\ KeyOf(last'.host, last'.port) \in DOMAIN connections
          /\ entries[connections[KeyOf(last'.host, last'.port)]].connection
                 # NULL ) =>
            /\ last'.ret = connections[KeyOf(last'.host, last'.port)]
            /\ calls' = <<>>
            /\ UNCHANGED <<http, connections, entries, timeouts, next_timeout,
                           timer, socks>>
      ]_vars

(* a connected entry was asked for again, in upper case, later on *)
C15_Witness ==
    /\ last.op = "new"
    /\ last.host = <<"A">>
    /\ calls = <<>>
    /\ now > 0
    /\ entries[last.ret].connected

(* the calls of the last handler from the third one on *)
AfterPending == SubSeq(calls, 3, Len(calls))

(* C16: the input handler that has a complete message calls request_response
   with it, then request_pending, and then, by the close directive of the
   message and the answer of request_pending: disconnects its socket and
   connects the same destination again (close, pending); disconnects and
   nothing more (close, nothing pending); calls request_next for its entry
   (no close, pending); calls nothing (no close, nothing pending).  It never
   calls request_next after a close. *)
C16_DispatchOrderAndCases ==
    (last.op = "data" /\ last.frame.outcome = "complete") =>
        /\ Len(calls) >= 2
        /\ calls[1][1] = "request_response"
        /\ calls[1][3].body = last.frame.body
        /\ calls[2] = <<"request_pending", calls[1][2]>>
        /\ Len(CallsOf("request_response")) = 1
        /\ LET id    == calls[1][2]
               close == HasCloseDirective(calls[1][3])
           IN  /\ id \in Live
               /\ CASE close /\ last.pending ->
                         /\ Len(AfterPending) \in {2, 3}
                         /\ AfterPending[1] = <<"disconnect", last.sock>>
                         /\ AfterPending[2] =
                                <<"connect", "TLS", entries[id].host,
                                  entries[id].port, entries[id].connection>>
                         /\ Len(AfterPending) = 3 =>
                                AfterPending[3][1] = "schedule"
                         /\ entries[id].connection # last.sock
                         /\ CallsOf("request_next") = <<>>
                    [] close /\ ~last.pending ->
                         AfterPending = << <<"disconnect", last.sock>> >>
                    [] ~close /\ last.pending ->
                         /\ AfterPending = << <<"request_next", id>> >>
                         /\ entries[id].connection = last.sock
                         /\ socks[last.sock].open
                    [] OTHER ->
                         /\ AfterPending = <<>>
                         /\ entries[id].connection = last.sock
                         /\ socks[last.sock].open

(* a close arrived, some time after the connect, while a request was
   pending: the socket was closed and the destination connected again *)
C16_Witness ==
    /\ last.op = "data"
    /\ last.frame.outcome = "complete"
    /\ last.pending
    /\ Len(calls) = 4
    /\ calls[3] = <<"disconnect", last.sock>>
    /\ calls[4][1] = "connect"
    /\ now > 0

(* the entry a call of get_or_create finds under the key of its arguments *)
Found == connections[KeyOf(last'.host, last'.port)]

(* the entry the response of the last input handler was delivered for *)
Answered == calls'[1][2]

PoolMatchesQueue ==
    /\ \A k \in DOMAIN connections :
           /\ connections[k] \in Live
           /\ entries[connections[k]].host_port = k
           /\ Occurrences(timeouts, connections[k]) = 1
    /\ \A j \in 1..Len(timeouts) : Registered(timeouts[j])
    /\ \A i \in Live : Registered(i)

ReestablishKeepsEntry ==
    /\ ( /\ last'.op = "new"
         /\ KeyOf(last'.host, last'.port) \in DOMAIN connections
         /\ entries[Found].connection = NULL ) =>
             /\ last'.ret = Found
             /\ connections' = connections
             /\ Len(entries') = Len(entries)
             /\ entries'[Found].connection # NULL
             /\ Occurrences(timeouts', Found) = 1
    /\ ( /\ last'.op = "data"
         /\ CallsOf("connect")' # <<>> ) =>
             /\ connections' = connections
             /\ Len(entries') = Len(entries)
             /\ connections'[entries'[Answered].host_port] = Answered
             /\ entries'[Answered].connection = CallsOf("connect")'[1][5]
             /\ Occurrences(timeouts', Answered) = 1

(* C17: a get_or_create that finds an entry without a socket, called by the
   close handler or later, connects that same entry again: the mapping is
   unchanged, no entry is created and the entry is in the timeout queue
   once.  In every reachable state each entry of the mapping is live, is
   registered under its own key and is in the timeout queue exactly once,
   and the queue holds nothing else. *)
C17_ReentrantReestablishConsistent ==
    []PoolMatchesQueue /\ [][ReestablishKeepsEntry]_vars

(* get_or_create has connected again the one entry of the pool, whose
   socket a close had taken away *)
C17_Witness ==
    /\ last.op = "new"
    /\ CallsOf("connect") # <<>>
    /\ Len(entries) = 1
    /\ Len(socks) = 2
    /\ timeouts = <<1>>
    /\ connections[entries[1].host_port] = 1


(* C18: with a clock that never goes back, the timeout queue is in order of
   deadline, earliest first, in every reachable state. *)
C18_QueueSortedByDeadline ==
    \A j \in 1..(Len(timeouts) - 1) :
        entries[timeouts[j]].timeout <= entries[timeouts[j + 1]].timeout

(* get_or_create has queued a second entry, with a later deadline, behind
   the first *)
C18_Witness ==
    /\ last.op = "new"
    /\ Len(timeouts) = 2
    /\ timeouts[2] = last.ret
    /\ entries[timeouts[1]].timeout < entries[timeouts[2]].timeout


ConnectedHasSocket ==
    \A i \in 1..Len(entries) :
        entries[i].connected =>
            /\ entries[i].connection # NULL
            /\ socks[entries[i].connection].open
            /\ socks[entries[i].connection].owner = i

(* entry i is connected after the step, and was not before it with the
   socket it has now *)
BecomesConnected(i) ==
    /\ entries'[i].connected
    /\ \/ i > Len(entries)
       \/ ~entries[i].connected
       \/ entries[i].connection # entries'[i].connection

ConnectedOnlyBySignal ==
    \A i \in 1..Len(entries') :
        BecomesConnected(i) =>
            /\ last'.op = "connected"
            /\ i <= Len(entries)
            /\ entries[i].connection = last'.sock
            /\ entries'[i].connection = last'.sock

(* C19: an entry is connected only once the backend has signalled the
   connect of the socket the entry has now.  The flag rises only in the
   handler of that signal; an entry that is created or whose socket changes
   (establish, re-establish, close by the server) is not connected after
   the step; a connected entry has an open socket of its own. *)
C19_ConnectedOnlyAfterSignal ==
    []ConnectedHasSocket /\ [][ConnectedOnlyBySignal]_vars

(* the entry was connected, the server closed with a request pending, and
   the entry now waits for the signal of its second socket *)
C19_Witness ==
    /\ last.op = "data"
    /\ CallsOf("connect") # <<>>
    /\ entries[1].connection = 2
    /\ ~entries[1].connected
    /\ ~socks[1].open


(* the entry the socket of the step belonged to when the step began *)
Struck == socks[last'.sock].owner

(* the timeout queue without entry a *)
QueueWithout(queue, a) == SelectSeq(queue, LAMBDA i : i # a)

OthersUntouched(a) ==
    /\ \A i \in Live \ {a} :
           /\ entries'[i] = entries[i]
           /\ entries[i].connection # NULL =>
                  socks'[entries[i].connection] = socks[entries[i].connection]
           /\ connections'[entries[i].host_port] = i
    /\ QueueWithout(timeouts', a) = QueueWithout(timeouts, a)
    /\ \A j \in 1..Len(CallsOf("disconnect")') :
           CallsOf("disconnect")'[j][2] = last'.sock
    /\ \A j \in 1..Len(CallsOf("request_shutdown")') :
           CallsOf("request_shutdown")'[j][2] = a

(* C20: a step of the error handler or of the input handler for a socket of
   entry A (an error, a close by the server, a message that is malformed or
   not complete, or any other input) leaves every other entry of the pool
   as it was: its socket, connected flag, deadline, registration and the
   buffer of its socket; the other entries keep their order in the timeout
   queue; no socket but the one of the step is disconnected and no other
   entry is shut down. *)
C20_FailureConfinedToDestination ==
    [][ last'.op \in {"error", "data"} => OthersUntouched(Struck) ]_vars

(* the error handler has dropped one of two entries; the other is still
   connected and holds the unfinished input it had received *)
C20_Witness ==
    /\ last.op = "error"
    /\ Len(entries) = 2
    /\ \E i \in Live :
           /\ entries[i].connected
           /\ socks[entries[i].connection].open
           /\ socks[entries[i].connection].buffer # <<>>
           /\ timeouts = <<i>>


(* the last time the clock of the model shows *)
LastTick == (MaxTime \div TickStep) * TickStep

(* the times the clock of the model shows *)
Ticks == { n * TickStep : n \in 0..(MaxTime \div TickStep) }

(* the deadlines an entry can get and the clock can reach *)
Deadlines ==
    { t + SIPE_HTTP_DEFAULT_TIMEOUT : t \in Ticks } \cap 0..LastTick

(* entry i is in the pool with deadline d *)
Waits(i, d) ==
    /\ i <= Len(entries)
    /\ ~entries[i].freed
    /\ entries[i].timeout = d

(* C21: while the pool is in use, with a clock that goes on and a scheduler
   that runs the timer action once it is due, an entry that is in the pool
   with some deadline does not stay so for ever: it is evicted, or dropped
   by an error, or gets a new deadline when it is established again.  This
   holds whatever input its socket has received, so also for a connection
   whose input never becomes a message. *)
C21_EveryEntryEventuallyEvicted ==
    \A i \in 1..MaxSocks : \A d \in Deadlines : Waits(i, d) ~> ~Waits(i, d)

(* the timer has evicted the first entry at its deadline and is scheduled
   again for the second, which was created later *)
C21_Witness ==
    /\ last.op = "timeout"
    /\ Len(entries) = 2
    /\ entries[1].freed
    /\ ~entries[2].freed
    /\ timer.pending
    /\ timer.payload = 2
    /\ timer.due = entries[2].timeout
    /\ now < timer.due


-----------------------------------------------------------------------------
(* Vocabulary of the properties of a body of declared length *)

(* where in buf the first empty line starts, 0 when there is none *)
FirstBlankLine(buf) ==
    IF \E p \in 1..(Len(buf) - 3) : SubSeq(buf, p, p + 3) = CRLFCRLF
    THEN CHOOSE p \in 1..(Len(buf) - 3) :
             /\ SubSeq(buf, p, p + 3) = CRLFCRLF
             /\ \A q \in 1..(p - 1) : SubSeq(buf, q, q + 3) # CRLFCRLF
    ELSE 0

(* what the last run of the input handler was given to frame *)
Given == StripLead(last.frame.input)

(* the length of its header block, the empty line included *)
HeaderLen == FirstBlankLine(Given) + 3

(* what the header parser makes of that block *)
Declared == sipmsg_parse_header(SubSeq(Given, 1, FirstBlankLine(Given) + 1))

(* the input holds a header block that is accepted and declares a body of
   a length, which is 0 when it names neither a length nor chunking *)
FixedLength ==
    /\ last.op = "data"
    /\ FirstBlankLine(Given) # 0
    /\ Declared.ok
    /\ Declared.bodylen >= 0

(* C22: on a header block that declares a body of L bytes (L = 0 when it
   declares neither a length nor chunking) the framer finds no message
   while fewer than L bytes follow the empty line and leaves the input as
   it is; otherwise it completes a message whose body is the first L bytes
   after the empty line and takes the header block and those L bytes, and
   nothing else, out of the buffer. *)
C22_FixedLengthFraming ==
    FixedLength =>
        IF Len(Given) - HeaderLen < Declared.bodylen
        THEN /\ last.frame.outcome = "body_short"
             /\ last.frame.rest = Given
             /\ CallsOf("request_response") = <<>>
        ELSE /\ last.frame.outcome = "complete"
             /\ last.frame.bodylen = Declared.bodylen
             /\ last.frame.body =
                    SubSeq(Given, HeaderLen + 1, HeaderLen + Declared.bodylen)
             /\ Len(Given) - Len(last.frame.rest)
                    = HeaderLen + Declared.bodylen
             /\ last.frame.rest =
                    SubSeq(Given, HeaderLen + Declared.bodylen + 1, Len(Given))
             /\ Len(CallsOf("request_response")) = 1
             /\ CallsOf("request_response")[1][3].body = last.frame.body

(* a body of four bytes that are an empty line themselves is complete with
   the byte that has just arrived, and a second message waits behind it *)
C22_Witness ==
    /\ FixedLength
    /\ last.frame.outcome = "complete"
    /\ last.frame.body = CRLFCRLF
    /\ last.fed = 1
    /\ Len(stream.msgs) = 2
    /\ sent = stream.ends[1]

-----------------------------------------------------------------------------
(* Properties of the scheduled action and of the sockets *)

(* C23: between handlers, whenever the timeout queue holds an entry the
   eviction timer is armed: next_timeout is set and an action is scheduled,
   for a time that is not after the deadline of any queued entry.  With an
   empty queue the timer may still be armed. *)
C23_QueuedEntriesHaveTimer ==
    timeouts # <<>> =>
        /\ next_timeout # 0
        /\ timer.pending
        /\ timer.due = next_timeout
        /\ \A j \in 1..Len(timeouts) : timer.due <= entries[timeouts[j]].timeout

(* the timer has evicted the entry it was scheduled for and the one queued
   behind it is waited for by a new action, scheduled for its deadline *)
C23_Witness ==
    /\ last.op = "timeout"
    /\ Len(timeouts) = 1
    /\ entries[Head(timeouts)].connected
    /\ timer.pending
    /\ next_timeout = entries[Head(timeouts)].timeout
    /\ Len(CallsOf("schedule")) = 1
    /\ Len(CallsOf("disconnect")) = 1


(* C24: whenever the eviction timer is pending, the entry it carries is
   live, is registered in the pool and is in the timeout queue, so the
   timer callback never reads or drops an entry that was released. *)
C24_TimerPayloadRegistered ==
    timer.pending =>
        /\ timer.payload \in Live
        /\ Registered(timer.payload)
        /\ Occurrences(timeouts, timer.payload) = 1


(* C25: a socket that connect returned is disconnected at most once, and
   it is open exactly while it is the socket of the live entry it was
   opened for: an entry that is released or gets another socket leaves no
   socket open behind it, and a closed socket belongs to no entry, so it is
   not disconnected again. *)
C25_SocketsDisconnectedOnce ==
    /\ \A k \in DOMAIN socks :
           /\ socks[k].disc <= 1
           /\ socks[k].open <=> socks[k].disc = 0
           /\ socks[k].open <=>
                  \E i \in Live : entries[i].connection = k
           /\ socks[k].open => entries[socks[k].owner].connection = k
    /\ \A i \in Live :
           entries[i].connection # NULL =>
               /\ entries[i].connection \in DOMAIN socks
               /\ socks[entries[i].connection].owner = i
    /\ \A j \in 1..Len(CallsOf("disconnect")) :
           /\ socks[CallsOf("disconnect")[j][2]].disc = 1
           /\ Occurrences(calls, CallsOf("disconnect")[j]) = 1

(* the server closed the first socket, the entry was established again
   with a second socket, and the timer has evicted it: each of the two
   sockets has been disconnected once *)
C25_Witness ==
    /\ last.op = "timeout"
    /\ Len(socks) = 2
    /\ Len(entries) = 1
    /\ entries[1].freed
    /\ socks[1].disc = 1
    /\ socks[2].disc = 1
    /\ calls[1] = <<"disconnect", 2>>

====
